---- MODULE Spec2Model ----
(***************************************************************************)
(* traknab: the batch loop of main() and the per-track pipeline of         *)
(* download() (src/traknab/__main__.py), modelled over a download root     *)
(* that is a set of file paths.                                            *)
(*                                                                         *)
(* A Python string is a sequence of tokens, so that an f-string is a       *)
(* concatenation and Path.with_suffix is a replacement of the last token.  *)
(* A path under DOWNLOAD_PATH is a record [dir |-> genre, name |-> name].  *)
(* download() is cut at its blocking calls (search, stream query,          *)
(* download, transcode): an interruption signal or another error surfaces  *)
(* through the blocking call it interrupts.                                *)
(***************************************************************************)
EXTENDS Integers, Sequences, FiniteSets, TLC

VARIABLES
    files,           \* regular files under DOWNLOAD_PATH
    dirs,            \* genre directories under DOWNLOAD_PATH
    filename,        \* the process-wide global 'filename' (<<>>: not yet bound)
    idx,             \* position of the three nested for-loops, 1..NumTracks+1
    pc,              \* where the process is
    search_results,  \* local of download(): the list returned by Search
    audio_stream,    \* local of download(): the selected stream, or None
    run,             \* number of the process run over the same download root
    order,           \* history: the requests download() was called with, this run
    trace,           \* history: the steps of the latest download() call
    outcome,         \* history: how the latest download() call ended
    outcomes,        \* history: the ways download() calls ended, this run
    calls,           \* history: the collaborators called, this run
    changed,         \* history: a file was created or removed, this run
    startedComplete, \* history: every durable output existed when this run started
    prevEnd,         \* history: how the previous run ended ("none" in the first run)
    written          \* history: durable paths whose write_audiofile ran to completion

vars == <<files, dirs, filename, idx, pc, search_results, audio_stream, run,
          order, trace, outcome, outcomes, calls, changed, startedComplete, prevEnd,
          written>>

----------------------------------------------------------------------------
(* Bounds *)

MaxRuns == 2

----------------------------------------------------------------------------
(* Module-level constants and the loaded configuration *)

TRACKLENGTH_UPPER_THRESHOLD == 60 * 15

FILESIZE_LOWER_THRESHOLD == 2

None == [filesize |-> -1]

\* tracks.toml as toml.load returns it: genre -> artist -> list of titles, in
\* file order.  Both genres list the same artists and titles, so that only the
\* target directory tells their files apart.
ArtistTable ==
    << [artist |-> <<"a1">>, titles |-> << <<"t1">>, <<"t2">> >>],
       [artist |-> <<"a2">>, titles |-> << <<"t1">>, <<"t2">> >>] >>

tracks ==
    << [genre |-> <<"g1">>, artists |-> ArtistTable],
       [genre |-> <<"g2">>, artists |-> ArtistTable] >>

----------------------------------------------------------------------------
(* Strings and paths *)

Suffixes == {".mp4", ".mp3"}

\* f'{artist} - {track_title}.mp4'
FileName(artist, track_title) == artist \o <<" - ">> \o track_title \o <<".mp4">>

\* Path(f'{DOWNLOAD_PATH}/{target_dir}/{name}')
PathOf(target_dir, name) == [dir |-> target_dir, name |-> name]

WithSuffixAppend(p, suffix) == [p EXCEPT !.name = @ \o <<suffix>>]

\* Path.with_suffix: the last suffix of the name is replaced, or the suffix is
\* appended to a name that has none
WithSuffix(p, suffix) ==
    IF Len(p.name) > 0 /\ p.name[Len(p.name)] \in Suffixes
    THEN [p EXCEPT !.name = SubSeq(@, 1, Len(@) - 1) \o <<suffix>>]
    ELSE [p EXCEPT !.name = @ \o <<suffix>>]

\* round(audio_stream.filesize * 1e-6, 2), in hundredths of a megabyte
\* (exact for every size that is not a tie k*10000 + 5000)
FileSize(filesize) == (filesize + 5000) \div 10000

----------------------------------------------------------------------------
(* The iteration order of the three nested for-loops *)

TitlesOfFirstOnly(genre, entry, k) ==
    IF k > 1 \/ Len(entry.titles) = 0 THEN <<>>
    ELSE << [target_dir |-> genre, artist |-> entry.artist,
             track_title |-> entry.titles[1]] >>

\* line 138, under lines 136-137
RECURSIVE TitlesOf(_, _, _)
TitlesOf(genre, entry, k) ==
    IF k > Len(entry.titles) THEN <<>>
    ELSE << [target_dir |-> genre, artist |-> entry.artist,
             track_title |-> entry.titles[k]] >>
         \o TitlesOf(genre, entry, k + 1)

RECURSIVE ArtistsOf(_, _)
ArtistsOf(g, j) ==
    IF j > Len(g.artists) THEN <<>>
    ELSE TitlesOf(g.genre, g.artists[j], 1) \o ArtistsOf(g, j + 1)

RECURSIVE GenresFrom(_)
GenresFrom(i) ==
    IF i > Len(tracks) THEN <<>>
    ELSE ArtistsOf(tracks[i], 1) \o GenresFrom(i + 1)

Requests == GenresFrom(1)

NumTracks == Len(Requests)

Req == Requests[idx]

\* '{target directory}/{artist} - {title}.mp3' and '....mp4', written out
DurablePathOf(r) ==
    [dir |-> r.target_dir, name |-> r.artist \o <<" - ">> \o r.track_title \o <<".mp3">>]

TransientPathOf(r) ==
    [dir |-> r.target_dir, name |-> r.artist \o <<" - ">> \o r.track_title \o <<".mp4">>]

----------------------------------------------------------------------------
(* What the collaborators may answer *)

\* durations in seconds at and just above the threshold
Durations == {TRACKLENGTH_UPPER_THRESHOLD, TRACKLENGTH_UPPER_THRESHOLD + 1}

Result(d) == [length |-> d]

\* the lists the search collaborator may return: empty, one result, or two
\* results of which only the first is looked at
ResultLists ==
    {<<>>} \cup {<<Result(d)>> : d \in Durations}
           \cup {<<Result(d), Result(e)>> : d \in Durations, e \in Durations}

\* estimated sizes in bytes around the 2 MB threshold
FileSizes == {1994999, 1995001, 2000000}

Streams == {[filesize |-> b] : b \in FileSizes} \cup {None}

Signals == {"KeyboardInterrupt", "ConnectionResetError"}

----------------------------------------------------------------------------
(* download(): the paths it computes and the conditions it tests *)

\* line 113: file_path, the intermediate file
IntermediatePath(target_dir, name) == PathOf(target_dir, name)

\* lines 75 and 121: the durable output beside it
OutputPath(target_dir, name) == WithSuffix(PathOf(target_dir, name), ".mp3")

AlreadyDownloadedNoSuffix(fs, target_dir, name) == PathOf(target_dir, name) \in fs

AlreadyDownloadedInRoot(fs, target_dir, name) == OutputPath(<<>>, name) \in fs

\* line 75: the guard of TrackAlreadyDownloaded
AlreadyDownloaded(fs, target_dir, name) == OutputPath(target_dir, name) \in fs

TooLongInclusive(yt) == yt.length >= TRACKLENGTH_UPPER_THRESHOLD

\* line 93
TooLong(yt) == yt.length > TRACKLENGTH_UPPER_THRESHOLD

\* line 102
TooSmall(stream) == FileSize(stream.filesize) < FILESIZE_LOWER_THRESHOLD * 100

HandlerPathOfFirst(genre, name) ==
    PathOf(genre, FileName(Requests[1].artist, Requests[1].track_title))

\* line 156: the path the interruption handler unlinks
HandlerPath(genre, name) == PathOf(genre, name)

\* a local of download() is dropped once no later line reads its value
NoLocals == search_results' = <<>> /\ audio_stream' = None

Ends(how) == outcome' = how /\ outcomes' = outcomes \cup {how}

\* 'continue' in an except clause of main(), or the end of the loop body
Continue == idx' = idx + 1 /\ pc' = "loop" /\ NoLocals

PropagateAsContinue == Continue

\* an exception no except clause of main() matches leaves main()
Propagate == pc' = "crashed" /\ idx' = idx /\ NoLocals

Touches == changed' = (changed \/ files' # files)

----------------------------------------------------------------------------
Init ==
    /\ files = {}
    /\ dirs = {}
    /\ filename = <<>>
    /\ idx = 1
    /\ pc = "loop"
    /\ search_results = <<>>
    /\ audio_stream = None
    /\ run = 1
    /\ order = <<>>
    /\ trace = <<>>
    /\ outcome = "none"
    /\ outcomes = {}
    /\ calls = {}
    /\ changed = FALSE
    /\ startedComplete = FALSE
    /\ prevEnd = "none"
    /\ written = {}

\* lines 141, 66-76, 148-149: the call, the global, the directory, the guard
Enter ==
    /\ pc = "loop"
    /\ idx <= NumTracks
    /\ filename' = FileName(Req.artist, Req.track_title)
    /\ dirs' = dirs \cup {Req.target_dir}
    /\ order' = Append(order, Req)
    /\ trace' = <<"call">>
    /\ IF AlreadyDownloaded(files, Req.target_dir, filename')
       THEN /\ Ends("TrackAlreadyDownloaded")
            /\ Continue
       ELSE /\ pc' = "search"
            /\ outcome' = "none"
            /\ UNCHANGED <<idx, search_results, audio_stream, outcomes>>
    /\ UNCHANGED <<files, run, calls, changed, startedComplete, prevEnd, written>>

\* line 84: the search collaborator answers
Search ==
    /\ pc = "search"
    /\ \E r \in ResultLists : search_results' = r
    /\ calls' = calls \cup {"search"}
    /\ trace' = Append(trace, "search")
    /\ pc' = "select"
    /\ UNCHANGED <<files, dirs, filename, idx, audio_stream, run, order, outcome,
                   outcomes, changed, startedComplete, prevEnd, written>>

\* lines 87-94, 151-153: the first result and the duration gate
SelectFirst ==
    /\ pc = "select"
    /\ IF search_results = <<>>
       THEN /\ Ends("IndexError")
            /\ Propagate
       ELSE IF TooLong(search_results[1])
       THEN /\ Ends("TrackObtainError")
            /\ Continue
       ELSE /\ pc' = "stream"
            /\ NoLocals
            /\ UNCHANGED <<idx, outcome, outcomes>>
    /\ UNCHANGED <<files, dirs, filename, run, order, trace, calls, changed,
                   startedComplete, prevEnd, written>>

\* line 97: the stream query answers (None when there is no webm audio stream)
GetStream ==
    /\ pc = "stream"
    /\ \E s \in Streams : audio_stream' = s
    /\ calls' = calls \cup {"streams"}
    /\ trace' = Append(trace, "streams")
    /\ pc' = "check"
    /\ UNCHANGED <<files, dirs, filename, idx, search_results, run, order, outcome,
                   outcomes, changed, startedComplete, prevEnd, written>>

\* lines 98-103, 151-153: the size gate
CheckSize ==
    /\ pc = "check"
    /\ IF audio_stream = None
       THEN /\ Ends("AttributeError")
            /\ Propagate
       ELSE IF TooSmall(audio_stream)
       THEN /\ Ends("TrackObtainError")
            /\ Continue
       ELSE /\ pc' = "download"
            /\ NoLocals
            /\ UNCHANGED <<idx, outcome, outcomes>>
    /\ UNCHANGED <<files, dirs, filename, run, order, trace, calls, changed,
                   startedComplete, prevEnd, written>>

\* line 109: the download collaborator opens the intermediate file
DownloadOpen ==
    /\ pc = "download"
    /\ files' = files \cup {IntermediatePath(Req.target_dir, filename)}
    /\ Touches
    /\ calls' = calls \cup {"download"}
    /\ trace' = Append(trace, "download")
    /\ pc' = "downloading"
    /\ UNCHANGED <<dirs, filename, idx, search_results, audio_stream, run, order,
                   outcome, outcomes, startedComplete, prevEnd, written>>

\* lines 109-110: the download completes
DownloadDone ==
    /\ pc = "downloading"
    /\ pc' = "transcode"
    /\ UNCHANGED <<files, dirs, filename, idx, search_results, audio_stream, run,
                   order, trace, outcome, outcomes, calls, changed, startedComplete, prevEnd,
                   written>>

\* lines 115-125: the clip is loaded and write_audiofile opens the output
TranscodeOpen ==
    /\ pc = "transcode"
    /\ files' = files \cup {OutputPath(Req.target_dir, filename)}
    /\ Touches
    /\ calls' = calls \cup {"transcode"}
    /\ trace' = Append(trace, "transcode")
    /\ pc' = "transcoding"
    /\ UNCHANGED <<dirs, filename, idx, search_results, audio_stream, run, order,
                   outcome, outcomes, startedComplete, prevEnd, written>>

\* lines 125-130, 143-146: the write completes, the intermediate is unlinked,
\* download() returns (SECONDS_TO_SLEEP is 0: no sleep)
TranscodeDone ==
    /\ pc = "transcoding"
    /\ written' = written \cup {OutputPath(Req.target_dir, filename)}
    /\ files' = files \ {IntermediatePath(Req.target_dir, filename)}
    /\ Touches
    /\ trace' = trace \o <<"unlink", "return">>
    /\ Ends("return")
    /\ Continue
    /\ UNCHANGED <<dirs, filename, run, order, calls, startedComplete, prevEnd>>

Blocking == {"search", "stream", "download", "downloading", "transcode", "transcoding"}

\* lines 155-159: an interruption signal surfaces through a blocking call
Interrupt ==
    /\ pc \in Blocking
    /\ \E sig \in Signals : Ends(sig)
    /\ files' = files \ {HandlerPath(Req.target_dir, filename)}
    /\ Touches
    /\ trace' = Append(trace, "cleanup")
    /\ pc' = "exited"
    /\ NoLocals
    /\ UNCHANGED <<dirs, filename, idx, run, order, calls, startedComplete, prevEnd, written>>

\* any other exception of a blocking call: no except clause matches
Error ==
    /\ pc \in Blocking
    /\ Ends("Error")
    /\ Propagate
    /\ UNCHANGED <<files, dirs, filename, run, order, trace, calls, changed,
                   startedComplete, prevEnd, written>>

\* line 161: the loops are exhausted
Finish ==
    /\ pc = "loop"
    /\ idx > NumTracks
    /\ pc' = "done"
    /\ UNCHANGED <<files, dirs, filename, idx, search_results, audio_stream, run,
                   order, trace, outcome, outcomes, calls, changed, startedComplete, prevEnd,
                   written>>

Ended == pc \in {"done", "exited", "crashed"}

\* the program is started again over the same configuration and download root
Rerun ==
    /\ Ended
    /\ run < MaxRuns
    /\ run' = run + 1
    /\ idx' = 1
    /\ pc' = "loop"
    /\ filename' = <<>>
    /\ order' = <<>>
    /\ trace' = <<>>
    /\ outcome' = "none"
    /\ outcomes' = {}
    /\ calls' = {}
    /\ changed' = FALSE
    /\ startedComplete' = (\A i \in 1..NumTracks : DurablePathOf(Requests[i]) \in files)
    /\ prevEnd' = pc
    /\ NoLocals
    /\ UNCHANGED <<files, dirs, written>>

Next ==
    \/ Enter
    \/ Search
    \/ SelectFirst
    \/ GetStream
    \/ CheckSize
    \/ DownloadOpen
    \/ DownloadDone
    \/ TranscodeOpen
    \/ TranscodeDone
    \/ Interrupt
    \/ Error
    \/ Finish
    \/ Rerun

Spec == Init /\ [][Next]_vars

----------------------------------------------------------------------------
(* Vocabulary of the properties *)

IsDurable(f) == Len(f.name) > 0 /\ f.name[Len(f.name)] = ".mp3"

IsTransient(f) == Len(f.name) > 0 /\ f.name[Len(f.name)] = ".mp4"

\* the files of one track request: same directory, same '{artist} - {title}'
FilesOfTrack(fs, r) ==
    {f \in fs : /\ f.dir = r.target_dir
                /\ Len(f.name) > 0
                /\ SubSeq(f.name, 1, Len(f.name) - 1)
                      = r.artist \o <<" - ">> \o r.track_title}

R(g, a, t) == [target_dir |-> <<g>>, artist |-> <<a>>, track_title |-> <<t>>]

\* genre -> artist -> title order of the 2 x 2 x 2 configuration
ExpectedOrder ==
    << R("g1", "a1", "t1"), R("g1", "a1", "t2"), R("g1", "a2", "t1"), R("g1", "a2", "t2"),
       R("g2", "a1", "t1"), R("g2", "a1", "t2"), R("g2", "a2", "t1"), R("g2", "a2", "t2") >>

FullTrace == <<"call", "search", "streams", "download", "transcode", "unlink", "return">>

Has(seq, x) == \E i \in 1..Len(seq) : seq[i] = x

OtherErrors == {"IndexError", "AttributeError", "Error"}

----------------------------------------------------------------------------
(* C1: when download() is called for a track whose durable output          *)
(* '{target directory}/{artist} - {title}.mp3' already exists, the call    *)
(* ends with TrackAlreadyDownloaded, no collaborator is called, no file    *)
(* or directory changes, and the loop goes on to the next track.           *)
C1_AlreadyAcquiredSkips ==
    [][ (pc = "loop" /\ idx <= NumTracks /\ DurablePathOf(Req) \in files)
        => /\ outcome' = "TrackAlreadyDownloaded"
           /\ trace' = <<"call">>
           /\ calls' = calls
           /\ files' = files /\ dirs' = dirs /\ changed' = changed
           /\ pc' = "loop" /\ idx' = idx + 1 ]_vars

C1_Witness ==
    /\ outcome = "TrackAlreadyDownloaded"
    /\ pc = "loop" /\ idx > 1 /\ idx <= NumTracks
    /\ DurablePathOf(Requests[idx - 1]) \in files \cap written

(* C2: a top result longer than 900 s, or a stream whose estimated size    *)
(* (rounded to hundredths of a MB) is below 2 MB, ends download() with     *)
(* TrackObtainError without a download or transcode call and without a     *)
(* file being created, and the loop goes on; exactly 900 s and exactly     *)
(* 2 MB pass their gates.                                                  *)
C2_Rejected ==
    /\ outcome' = "TrackObtainError"
    /\ ~Has(trace', "download") /\ ~Has(trace', "transcode")
    /\ files' = files
    /\ DurablePathOf(Req) \notin files'
    /\ pc' = "loop" /\ idx' = idx + 1

C2_ThresholdGates ==
    [][ /\ (pc = "select" /\ search_results # <<>> /\ search_results[1].length > 900)
           => C2_Rejected
        /\ (pc = "check" /\ audio_stream # None /\ FileSize(audio_stream.filesize) < 200)
           => C2_Rejected
        /\ (pc = "select" /\ search_results # <<>> /\ search_results[1].length = 900)
           => (pc' = "stream" /\ outcome' = "none")
        /\ (pc = "check" /\ audio_stream # None /\ audio_stream.filesize = 2000000)
           => (pc' = "download" /\ outcome' = "none") ]_vars

C2_Witness ==
    /\ outcome = "TrackObtainError"
    /\ trace = <<"call", "search", "streams">>
    /\ pc = "loop" /\ idx > 1 /\ idx <= NumTracks
    /\ FilesOfTrack(files, Requests[idx - 1]) = {}

(* C3: when download() has returned successfully for a track, the only     *)
(* file of that track is its durable '.mp3': the intermediate '.mp4' does  *)
(* not exist.                                                              *)
C3_SuccessLeavesOnlyDurable ==
    outcome = "return" =>
        /\ idx > 1
        /\ FilesOfTrack(files, Requests[idx - 1]) = {DurablePathOf(Requests[idx - 1])}
        /\ TransientPathOf(Requests[idx - 1]) \notin files

C3_Witness ==
    /\ outcome = "return"
    /\ trace = FullTrace
    /\ idx = 3
    /\ DurablePathOf(Requests[2]) \in files

(* C4: once an interruption signal has ended the run, the intermediate     *)
(* file of the track that was in flight does not exist, that track is the  *)
(* last one download() was called for, and nothing follows but a new run.  *)
C4_InterruptCleansAndStops ==
    [][ /\ (pc' = "exited") =>
              /\ TransientPathOf(Requests[idx']) \notin files'
              /\ Len(order') = idx'
              /\ order'[idx'] = Requests[idx']
        /\ (pc \in Blocking /\ pc' = "exited") =>
              /\ files' = files \ {TransientPathOf(Req)}
              /\ idx' = idx
        /\ (pc = "exited") => (run' = run + 1 /\ files' = files) ]_vars

C4_Witness ==
    /\ pc = "exited"
    /\ trace = <<"call", "search", "streams", "download", "cleanup">>
    /\ idx > 1 /\ idx < NumTracks
    /\ changed

(* C5 as stated: the second of two complete runs skips every track via     *)
(* TrackAlreadyDownloaded, calls no collaborator and changes no file.      *)
C5_SecondRunSkipsAll ==
    (run = 2 /\ prevEnd = "done" /\ pc = "done") =>
        /\ outcomes = {"TrackAlreadyDownloaded"}
        /\ calls = {}
        /\ ~changed

(* C5 amended: a run that starts with every track's durable output present *)
(* skips every track via TrackAlreadyDownloaded, calls no collaborator and *)
(* changes no file.                                                        *)
C5_CompleteRootIsIdempotent ==
    (run >= 2 /\ startedComplete) =>
        /\ outcomes \subseteq {"TrackAlreadyDownloaded"}
        /\ calls = {}
        /\ ~changed
        /\ pc \in {"loop", "done"}
        /\ pc = "done" => (outcomes = {"TrackAlreadyDownloaded"} /\ order = Requests)

C5_Witness ==
    /\ run = 2 /\ prevEnd = "done" /\ startedComplete
    /\ pc = "done"
    /\ Len(order) = NumTracks

(* C6: a run in which every call succeeds calls download() once per entry  *)
(* in genre -> artist -> title order and ends with one durable file per    *)
(* track and no other file; a track that succeeded went through search,    *)
(* download, transcode and unlink before the next call.                    *)
C6_AllSucceedInOrder ==
    /\ (pc = "done" /\ outcomes = {"return"}) =>
          /\ order = ExpectedOrder
          /\ files = {DurablePathOf(ExpectedOrder[i]) : i \in 1..Len(ExpectedOrder)}
          /\ Cardinality(files) = Len(ExpectedOrder)
    /\ (outcome = "return") =>
          /\ trace = FullTrace
          /\ pc \in {"loop", "done"}
          /\ order = SubSeq(ExpectedOrder, 1, idx - 1)

C6_Witness ==
    /\ pc = "done"
    /\ outcomes = {"return"}
    /\ Cardinality(files) = 8
    /\ Len(order) = 8

(* C7 as stated: an empty search result never ends the run with an         *)
(* index-out-of-range fault.                                               *)
C7_EmptySearchIsSkipped ==
    ~(pc = "crashed" /\ outcome = "IndexError")

(* C8: an error that is neither TrackAlreadyDownloaded, TrackObtainError   *)
(* nor an interruption signal ends the run where it is raised: no file is  *)
(* touched, so the intermediate file of a failed transcode stays, and      *)
(* nothing follows but a new run.                                          *)
C8_OtherErrorsPropagate ==
    [][ /\ (outcome = "none" /\ outcome' \in OtherErrors) =>
              /\ pc' = "crashed"
              /\ files' = files /\ idx' = idx /\ order' = order
              /\ ~Has(trace', "cleanup")
              /\ Has(trace', "transcode") => TransientPathOf(Req) \in files'
        /\ (pc = "crashed") => (run' = run + 1 /\ files' = files) ]_vars

C8_Witness ==
    /\ pc = "crashed"
    /\ outcome = "Error"
    /\ trace = <<"call", "search", "streams", "download", "transcode">>
    /\ TransientPathOf(Requests[idx]) \in files
    /\ idx < NumTracks

(* C9 as stated: at most one intermediate file exists, whatever runs came  *)
(* before.                                                                 *)
C9_AtMostOneIntermediate ==
    Cardinality({f \in files : IsTransient(f)}) <= 1

(* C10 as stated: outside a transcode in progress, a durable file exists   *)
(* only if its transcode ran to completion.                                *)
C10_DurableImpliesTranscoded ==
    pc # "transcoding" => \A f \in files : IsDurable(f) => f \in written

====
